---- MODULE Spec2Model ----
(***************************************************************************)
(* Wave-function-collapse tile map of bevy-wfc: the grid (TileMap), the    *)
(* rule table (TileRules), the collapse + propagate loop of generate() and *)
(* the sand-island post-processing pass.                                   *)
(*                                                                         *)
(* A Cell is the record [collapsed, types]: Collapsed(t) holds the one     *)
(* type t, Superposition(S) holds the candidate set S.  The tile map is a  *)
(* function from the positions present in the HashMap to cells; a freshly  *)
(* constructed map holds no position at all.                               *)
(***************************************************************************)
EXTENDS Integers, Sequences, FiniteSets, Bags, TLC

VARIABLES
  width,              \* TileMap.width
  height,             \* TileMap.height
  rules,              \* TileMap.rules: [tile_types, adjacency, weights]
  tiles,              \* TileMap.tiles: HashMap<Position, Cell>
  updated_positions,  \* the VecDeque of update_and_propagate
  pc,                 \* where the single thread of control is
  in_generate,        \* update_and_propagate was called by generate()
  returned,           \* what the last public call returned ("none" while one runs)
  before,             \* history: the grid when the last generate / clear / post pass began
  contradiction,      \* history: a cell held an empty candidate set since init_tiles
  defaulted           \* history: a lookup of a type with no entry took the default

vars == <<width, height, rules, tiles, updated_positions, pc, in_generate,
          returned, before, contradiction, defaulted>>

----------------------------------------------------------------------------
(* Bounds of the model. *)

\* A grid has at most MaxCells cells (width * height <= MaxCells).
MaxCells == 6

\* A grid of the terrain specification has at most MaxTerrainCells cells.
MaxTerrainCells == 6

\* A grid of the fair specification has at most MaxFairCells cells.
MaxFairCells == 4

\* A grid of the coast specification has at most MaxCoastCells cells.
MaxCoastCells == 5

\* Side of the square grid of the two-type uniformity scenario.
ScenarioSize == 3

\* Largest weight of the uniformity scenario's two (equal) weights.
MaxWeight == 2

\* std::i32::MAX, the entropy of a cell in full superposition.
i32_MAX == 2147483647

----------------------------------------------------------------------------
(* Cells and positions. *)

Collapsed(t) == [collapsed |-> TRUE, types |-> {t}]

Superposition(S) == [collapsed |-> FALSE, types |-> S]

\* The type a Collapsed cell holds.
TypeOf(cell) == CHOOSE t \in cell.types : TRUE

Position(x, y) == [x |-> x, y |-> y]

\* Every (x, y) with 0 <= x < width and 0 <= y < height.
Positions == {Position(x, y) : x \in 0..(width - 1), y \in 0..(height - 1)}

\* The order in which get_all_neighbours visits the directions.
directions == <<"North", "East", "South", "West">>

Range(s) == {s[i] : i \in 1..Len(s)}

----------------------------------------------------------------------------
(* TileRules. *)

\* TileRules::empty()
empty == [tile_types |-> <<>>, adjacency |-> <<>>, weights |-> <<>>]

\* The set the match of TileRules::valid_neighbour selects for a direction.
direction_set(rule, direction) ==
  CASE direction = "North" -> rule.north
    [] direction = "East"  -> rule.west
    [] direction = "South" -> rule.south
    [] direction = "West"  -> rule.east

\* TileRules::valid_neighbour: false when tile_type_b has no adjacency entry.
TileRules_valid_neighbour(tile_type_a, tile_type_b, direction) ==
  IF tile_type_b \notin DOMAIN rules.adjacency
    THEN FALSE
    ELSE tile_type_a \in direction_set(rules.adjacency[tile_type_b], direction)

\* self.weights.get(tile).unwrap_or(&0)
weight_or_default(tile_type) ==
  IF tile_type \in DOMAIN rules.weights THEN rules.weights[tile_type] ELSE 0

\* TileRules::get_weight_of_type
get_weight_of_type(tile_type) == weight_or_default(tile_type)

\* The Vec `tiles` of random_tile_from_set, as a bag: each tile of the set
\* is pushed weight-many times (the range 0..w is empty when w <= 0).
weighted_tiles(set) ==
  [t \in {u \in set : weight_or_default(u) > 0} |-> weight_or_default(t)]

\* TileRules::random_tile_from_set: the set of types the draw can return.
random_tile_from_set(set) ==
  IF weighted_tiles(set) = EmptyBag
    THEN {"grass"}
    ELSE BagToSet(weighted_tiles(set))

\* Cell::new(&self.rules.tile_types): full superposition over tile_types.
Cell_new(tile_types) == Superposition(Range(tile_types))

----------------------------------------------------------------------------
(* TileMap: neighbour lookup. *)

\* The position one step from `position` in `direction` (y grows southwards).
step(position, direction) ==
  CASE direction = "North" -> Position(position.x, position.y - 1)
    [] direction = "East"  -> Position(position.x + 1, position.y)
    [] direction = "South" -> Position(position.x, position.y + 1)
    [] direction = "West"  -> Position(position.x - 1, position.y)

\* TileMap::get_neighbour: the Option as a sequence of zero or one element.
get_neighbour(t, position, direction) ==
  LET new_position == step(position, direction) IN
  IF \/ new_position.x < 0
     \/ new_position.y < 0
     \/ new_position.x >= width
     \/ new_position.y >= height
    THEN <<>>
    ELSE IF new_position \notin DOMAIN t
      THEN <<>>
      ELSE <<[direction |-> direction, position |-> new_position,
              cell |-> t[new_position]]>>

\* TileMap::get_all_neighbours: North, East, South, West, absent ones dropped.
get_all_neighbours(t, position) ==
  get_neighbour(t, position, directions[1])
    \o get_neighbour(t, position, directions[2])
    \o get_neighbour(t, position, directions[3])
    \o get_neighbour(t, position, directions[4])

\* The positions of a neighbour list, in its order.
positions_of(neighbours) == [i \in 1..Len(neighbours) |-> neighbours[i].position]

----------------------------------------------------------------------------
(* TileMap: constraint filtering. *)

\* TileMap::valid_neighbour: the verdict of neighbour cell b on candidate a.
TileMap_valid_neighbour(a, b, direction) ==
  IF b.collapsed
    THEN IF TileRules_valid_neighbour(a, TypeOf(b), direction)
           THEN "Valid" ELSE "Impossible"
    ELSE IF \E n_type \in b.types : TileRules_valid_neighbour(a, n_type, direction)
           THEN "Valid" ELSE "Invalid"

RECURSIVE fold_validity_no_veto(_, _, _)
\* Mutant of fold_validity: the early return on an Impossible accumulator is
\* missing, so a later Valid neighbour overrides an earlier veto.
fold_validity_no_veto(tile_type, neighbours, n) ==
  IF n = 0 THEN "Invalid"
  ELSE LET acc == fold_validity_no_veto(tile_type, neighbours, n - 1)
           v == TileMap_valid_neighbour(tile_type, neighbours[n].cell,
                                        neighbours[n].direction)
       IN CASE v = "Valid"      -> "Valid"
            [] v = "Invalid"    -> acc
            [] v = "Impossible" -> "Impossible"

RECURSIVE fold_validity(_, _, _)
\* The fold of update_cell's type_filter over the first n neighbours.
fold_validity(tile_type, neighbours, n) ==
  IF n = 0 THEN "Invalid"
  ELSE LET acc == fold_validity(tile_type, neighbours, n - 1)
           v == TileMap_valid_neighbour(tile_type, neighbours[n].cell,
                                        neighbours[n].direction)
       IN IF acc = "Impossible" THEN "Impossible"
          ELSE CASE v = "Valid"      -> "Valid"
                 [] v = "Invalid"    -> acc
                 [] v = "Impossible" -> "Impossible"

\* update_cell's type_filter.
type_filter(tile_type, neighbours) ==
  fold_validity(tile_type, neighbours, Len(neighbours)) = "Valid"

\* update_cell's possible_types.
possible_types(types, neighbours) ==
  {tile_type \in types : type_filter(tile_type, neighbours)}

\* The cell update_cell writes back.
narrowed_cell(possible) ==
  IF Cardinality(possible) = 1
    THEN Collapsed(CHOOSE tile_type \in possible : TRUE)
    ELSE Superposition(possible)

\* Mutant of cell_changed: the neighbours are reported after every update
\* of a Superposition cell, whether or not a candidate was removed.
cell_changed_always(possible, types) == TRUE

\* update_cell's test "the cell has been changed in some way".
cell_changed(possible, types) == Cardinality(possible) # Cardinality(types)

\* Mutant of narrow: when no candidate passes the filter the cell is left as
\* it was and its Collapsed neighbours are reopened to full superposition (a
\* naive backtracking step).
narrow_backtracks(t, position, neighbours, possible) ==
  [tiles |-> IF possible = {}
               THEN [q \in DOMAIN t |->
                       IF q \in Range(positions_of(neighbours)) /\ t[q].collapsed
                         THEN Cell_new(rules.tile_types) ELSE t[q]]
               ELSE [t EXCEPT ![position] = narrowed_cell(possible)],
   some |-> cell_changed(possible, t[position].types),
   positions |-> IF cell_changed(possible, t[position].types)
                   THEN positions_of(neighbours) ELSE <<>>]

\* What update_cell does to a Superposition cell, given the neighbours it
\* read and the candidates that passed the filter: the new grid and the
\* Option<Vec<Position>> it returns (some = FALSE is None).
narrow(t, position, neighbours, possible) ==
  [tiles |-> [t EXCEPT ![position] = narrowed_cell(possible)],
   some |-> cell_changed(possible, t[position].types),
   positions |-> IF cell_changed(possible, t[position].types)
                   THEN positions_of(neighbours) ELSE <<>>]

\* Mutant of update_cell: the early return on a Collapsed cell is missing, so
\* its one type goes through the filter like the candidates of any cell.
update_cell_refilters_collapsed(t, position) ==
  CHOOSE result \in
    {narrow(t, position, neighbours,
            possible_types(t[position].types, neighbours)) :
       neighbours \in {get_all_neighbours(t, position)}} : TRUE

\* TileMap::update_cell on a position of the map.  A Collapsed cell is left
\* alone and None is returned; the neighbours are read once, before the
\* filter runs.
update_cell(t, position) ==
  IF t[position].collapsed
    THEN [tiles |-> t, some |-> FALSE, positions |-> <<>>]
    ELSE CHOOSE result \in
           {narrow(t, position, neighbours,
                   possible_types(t[position].types, neighbours)) :
              neighbours \in {get_all_neighbours(t, position)}} : TRUE

\* update_cell certainly looked up the adjacency of a type that has no entry:
\* a Collapsed neighbour's type is looked up unless the fold is already
\* Impossible; the types of a Superposition neighbour are all looked up when
\* none of them confirms the candidate (`any` stops at the first that does).
update_cell_defaulted(t, position) ==
  /\ ~t[position].collapsed
  /\ \E neighbours \in {get_all_neighbours(t, position)} :
     \E tile_type \in t[position].types : \E i \in 1..Len(neighbours) :
       /\ fold_validity(tile_type, neighbours, i - 1) # "Impossible"
       /\ \E n_type \in neighbours[i].cell.types :
            n_type \notin DOMAIN rules.adjacency
       /\ TileMap_valid_neighbour(tile_type, neighbours[i].cell,
                                  neighbours[i].direction) # "Valid"

----------------------------------------------------------------------------
(* TileMap: entropy-driven collapse. *)

RECURSIVE sum_weights(_)
\* The fold of calculate_entropy: 0 + the weight of every type of the set.
sum_weights(types) ==
  IF types = {} THEN 0
  ELSE LET item == CHOOSE item \in types : TRUE
       IN sum_weights(types \ {item}) + get_weight_of_type(item)

\* Mutant of calculate_entropy: the test for the full set is missing.
calculate_entropy_plain_sum(types) == sum_weights(types)

\* TileMap::calculate_entropy
calculate_entropy(types) ==
  IF Cardinality(types) = Len(rules.tile_types)
    THEN i32_MAX
    ELSE sum_weights(types)

\* Mutant of superposition_positions: the scan does not test the cell's
\* variant, so Collapsed cells are candidates of the scan too.
superposition_positions_any_cell(t) == DOMAIN t

\* The positions of the map that hold a Superposition cell.
superposition_positions(t) == {position \in DOMAIN t : ~t[position].collapsed}

\* find_lowest_entropy's lowest_entropy when the scan ends: it starts at
\* i32::MAX and drops to every smaller entropy met.
lowest_entropy(t) ==
  LET entropies == {i32_MAX} \cup
        {calculate_entropy(t[position].types) : position \in superposition_positions(t)}
  IN CHOOSE e \in entropies : \A f \in entropies : e <= f

\* Mutant of lowest_tiles: Ordering::Equal does not append, so a tie with the
\* initial i32::MAX is never recorded.
lowest_tiles_strict(t) ==
  {position \in superposition_positions(t) :
     /\ calculate_entropy(t[position].types) = lowest_entropy(t)
     /\ calculate_entropy(t[position].types) < i32_MAX}

\* find_lowest_entropy's lowest_tiles when the scan ends: a position is kept
\* when its entropy equals the final minimum (Less restarts the list, Equal
\* appends to it), whatever the HashMap's iteration order.
lowest_tiles(t) ==
  {position \in superposition_positions(t) :
     calculate_entropy(t[position].types) = lowest_entropy(t)}

\* Mutant of find_lowest_entropy: the first position of the list is returned
\* instead of a random one.
find_lowest_entropy_first_found(t) ==
  IF lowest_tiles(t) = {} THEN {}
  ELSE {CHOOSE position \in lowest_tiles(t) : TRUE}

\* find_lowest_entropy: the positions it can return; {} is None.
find_lowest_entropy(t) == lowest_tiles(t)

\* calculate_entropy or random_tile_from_set looked up the weight of a type
\* that has no entry while collapsing `position`.
collapse_defaulted(t, position) ==
  \/ \E p \in superposition_positions(t) :
       /\ Cardinality(t[p].types) # Len(rules.tile_types)
       /\ \E item \in t[p].types : item \notin DOMAIN rules.weights
  \/ \E tile \in t[position].types : tile \notin DOMAIN rules.weights

----------------------------------------------------------------------------
(* TileMap: initialisation and post-processing. *)

\* Mutant of init_tiles: a position the map already holds keeps its cell
\* (entry().or_insert instead of insert).
init_tiles_keep_existing(t) ==
  [position \in DOMAIN t \cup Positions |->
     IF position \in DOMAIN t THEN t[position] ELSE Cell_new(rules.tile_types)]

\* TileMap::init_tiles: every position of the grid is (re)inserted; entries
\* at other positions, if any, stay.
init_tiles(t) ==
  [position \in DOMAIN t \cup Positions |->
     IF position \in Positions THEN Cell_new(rules.tile_types) ELSE t[position]]

\* Mutant of surrounding_tiles: only the four cardinal neighbours are read.
surrounding_tiles_cardinal(t, position) ==
  {step(position, directions[i]) : i \in 1..4} \cap DOMAIN t

\* The cells should_remove_sand collects: the Moore neighbours present in the map.
surrounding_tiles(t, position) ==
  ({Position(position.x + x, position.y + y) : x \in -1..1, y \in -1..1}
     \ {position}) \cap DOMAIN t

\* TileMap::should_remove_sand
should_remove_sand(t, position) ==
  ~\E p \in surrounding_tiles(t, position) : t[p] = Collapsed("grass")

\* Mutant of cells_to_update: the test that the cell is Collapsed("sand") is
\* missing, so any cell without a grass neighbour is collected.
cells_to_update_any_cell(t) ==
  {position \in DOMAIN t : should_remove_sand(t, position)}

\* remove_sand_islands' cells_to_update, collected before any cell is written.
cells_to_update(t) ==
  {position \in DOMAIN t :
     t[position] = Collapsed("sand") /\ should_remove_sand(t, position)}

\* TileMap::remove_sand_islands
remove_sand_islands(t) ==
  [position \in DOMAIN t |->
     IF position \in cells_to_update(t) THEN Collapsed("water") ELSE t[position]]

----------------------------------------------------------------------------
(* Rule tables the map is constructed with. *)

\* An AdjacencyRule with the same set on all four sides.
same_on_all_sides(S) == [north |-> S, east |-> S, south |-> S, west |-> S]

\* Two types, everything may sit next to everything.
Permissive ==
  [tile_types |-> <<"A", "B">>,
   adjacency  |-> [A |-> same_on_all_sides({"A", "B"}),
                   B |-> same_on_all_sides({"A", "B"})],
   weights    |-> [A |-> 1, B |-> 2]]

\* A allows only A, B allows only B, in every direction; both weights are w.
Uniform(w) ==
  [tile_types |-> <<"A", "B">>,
   adjacency  |-> [A |-> same_on_all_sides({"A"}),
                   B |-> same_on_all_sides({"B"})],
   weights    |-> [A |-> w, B |-> w]]

\* Not symmetric: A's sets list B, B's sets do not list A.
Asymmetric ==
  [tile_types |-> <<"A", "B">>,
   adjacency  |-> [A |-> same_on_all_sides({"A", "B"}),
                   B |-> same_on_all_sides({"B"})],
   weights    |-> [A |-> 1, B |-> 1]]

\* The four sets of a type differ from one another.
Anisotropic ==
  [tile_types |-> <<"A", "B">>,
   adjacency  |-> [A |-> [north |-> {"A"}, east |-> {"A", "B"},
                          south |-> {"A", "B"}, west |-> {"A"}],
                   B |-> [north |-> {"A", "B"}, east |-> {"B"},
                          south |-> {"B"}, west |-> {"A", "B"}]],
   weights    |-> [A |-> 1, B |-> 1]]

\* Contradictory: nothing may sit next to B, and A accepts only B.
Contradictory ==
  [tile_types |-> <<"A", "B">>,
   adjacency  |-> [A |-> same_on_all_sides({"B"}),
                   B |-> same_on_all_sides({})],
   weights    |-> [A |-> 1, B |-> 1]]

\* B has no adjacency entry and A has no weight.
MissingEntries ==
  [tile_types |-> <<"A", "B">>,
   adjacency  |-> [A |-> same_on_all_sides({"A", "B"})],
   weights    |-> [B |-> 1]]

\* A has weight 0, B a positive weight.
ZeroWeight ==
  [tile_types |-> <<"A", "B">>,
   adjacency  |-> [A |-> same_on_all_sides({"A", "B"}),
                   B |-> same_on_all_sides({"A", "B"})],
   weights    |-> [A |-> 0, B |-> 1]]

\* One type only, which may sit next to itself.
SingleType ==
  [tile_types |-> <<"A">>,
   adjacency  |-> [A |-> same_on_all_sides({"A"})],
   weights    |-> [A |-> 1]]

\* The three terrain types of the post-processing pass, unconstrained.
Terrain ==
  [tile_types |-> <<"grass", "sand", "water">>,
   adjacency  |-> [grass |-> same_on_all_sides({"grass", "sand", "water"}),
                   sand  |-> same_on_all_sides({"grass", "sand", "water"}),
                   water |-> same_on_all_sides({"grass", "sand", "water"})],
   weights    |-> [grass |-> 1, sand |-> 1, water |-> 1]]

\* Three types in a chain: grass and water never touch, sand touches both.
Coast ==
  [tile_types |-> <<"grass", "sand", "water">>,
   adjacency  |-> [grass |-> same_on_all_sides({"grass", "sand"}),
                   sand  |-> same_on_all_sides({"grass", "sand", "water"}),
                   water |-> same_on_all_sides({"sand", "water"})],
   weights    |-> [grass |-> 2, sand |-> 1, water |-> 1]]

\* Water apart: grass and sand touch each other, water touches only water.
Inland ==
  [tile_types |-> <<"grass", "sand", "water">>,
   adjacency  |-> [grass |-> same_on_all_sides({"grass", "sand"}),
                   sand  |-> same_on_all_sides({"grass", "sand"}),
                   water |-> same_on_all_sides({"water"})],
   weights    |-> [grass |-> 1, sand |-> 1, water |-> 1]]

\* The two-type rule tables and the empty one.
RuleTables ==
  {Permissive, Uniform(1), Asymmetric, Anisotropic, Contradictory, empty,
   MissingEntries, ZeroWeight}

\* The rule tables of the general specification.
GeneralTables == RuleTables \cup {SingleType}

\* The rule tables of the terrain specification.
TerrainTables == {Terrain}

\* The rule tables of the coast specification.
CoastTables == {Coast}

\* The rule tables of the inland specification.
InlandTables == {Inland}

\* The rule tables of the uniformity scenario: equal weights 0..MaxWeight.
ScenarioTables == {Uniform(w) : w \in 0..MaxWeight}

\* The grid sizes within the bound.
GridSizes ==
  {d \in (1..MaxCells) \X (1..MaxCells) : d[1] * d[2] <= MaxCells}

\* The grid sizes of the fair specification.
FairSizes ==
  {d \in (1..MaxFairCells) \X (1..MaxFairCells) : d[1] * d[2] <= MaxFairCells}

\* The grid sizes of the terrain specification.  Its tables are the same in
\* all four directions and the post-processing pass treats x and y alike, so
\* a grid and its transpose behave alike and only the wider one is kept.
TerrainSizes ==
  {d \in (1..MaxTerrainCells) \X (1..MaxTerrainCells) :
     d[1] * d[2] <= MaxTerrainCells /\ d[1] >= d[2]}

----------------------------------------------------------------------------
(* The state machine. *)

\* TileMap::new(width, height, rules): the tiles HashMap is empty.
new(w, h, r) ==
  /\ width = w
  /\ height = h
  /\ rules = r
  /\ tiles = <<>>
  /\ updated_positions = <<>>
  /\ pc = "idle"
  /\ in_generate = FALSE
  /\ returned = "new"
  /\ before = <<>>
  /\ contradiction = FALSE
  /\ defaulted = FALSE

Init == \E d \in GridSizes : \E r \in GeneralTables : new(d[1], d[2], r)

\* Some cell of the grid holds an empty candidate set.
has_empty_cell(t) == \E position \in DOMAIN t : t[position] = Superposition({})

\* Mutant of generate: the call of init_tiles is missing, so the loop goes on
\* from whatever the grid holds.
generate_without_init ==
  /\ pc = "idle"
  /\ tiles' = tiles
  /\ pc' = "loop"
  /\ in_generate' = TRUE
  /\ returned' = "none"
  /\ before' = tiles
  /\ contradiction' = has_empty_cell(tiles)
  /\ defaulted' = FALSE
  /\ UNCHANGED <<width, height, rules, updated_positions>>

\* generate(), up to its loop: init_tiles.
generate ==
  /\ pc = "idle"
  /\ tiles' = init_tiles(tiles)
  /\ pc' = "loop"
  /\ in_generate' = TRUE
  /\ returned' = "none"
  /\ before' = tiles
  /\ contradiction' = has_empty_cell(init_tiles(tiles))
  /\ defaulted' = FALSE
  /\ UNCHANGED <<width, height, rules, updated_positions>>

\* clear(): init_tiles.
clear ==
  /\ pc = "idle"
  /\ tiles' = init_tiles(tiles)
  /\ returned' = "clear"
  /\ before' = tiles
  /\ contradiction' = has_empty_cell(init_tiles(tiles))
  /\ defaulted' = FALSE
  /\ UNCHANGED <<width, height, rules, updated_positions, pc, in_generate>>

\* update_and_propagate up to its while loop: collapse_to_random_type and
\* the enqueueing of the collapsed cell's neighbours, or Finished.
collapse_to_random_type(from_generate) ==
  IF find_lowest_entropy(tiles) = {}
    THEN \* None: MapStatus::Finished
      /\ pc' = IF from_generate THEN "post" ELSE "idle"
      /\ returned' = IF from_generate THEN "none" ELSE "Finished"
      /\ UNCHANGED <<tiles, updated_positions, contradiction, defaulted>>
    ELSE \E position \in find_lowest_entropy(tiles) :
      IF tiles[position].collapsed
        THEN \* panic!("Tried to collapse a collapsed cell")
          /\ pc' = "panicked"
          /\ returned' = "none"
          /\ UNCHANGED <<tiles, updated_positions, contradiction, defaulted>>
        ELSE \E type_to_collapse \in random_tile_from_set(tiles[position].types) :
          LET collapsed_tiles ==
                [tiles EXCEPT ![position] = Collapsed(type_to_collapse)]
          IN /\ tiles' = collapsed_tiles
             /\ updated_positions' =
                  positions_of(get_all_neighbours(collapsed_tiles, position))
             /\ pc' = "propagate"
             /\ returned' = "none"
             /\ defaulted' = (defaulted \/ collapse_defaulted(tiles, position))
             /\ UNCHANGED contradiction

\* update_and_propagate(), called on the map from outside generate().
update_and_propagate ==
  /\ pc = "idle"
  /\ in_generate' = FALSE
  /\ before' = <<>>
  /\ collapse_to_random_type(FALSE)
  /\ UNCHANGED <<width, height, rules>>

\* One iteration of generate()'s loop: its call of update_and_propagate.
generate_loop ==
  /\ pc = "loop"
  /\ in_generate' = TRUE
  /\ before' = <<>>
  /\ collapse_to_random_type(TRUE)
  /\ UNCHANGED <<width, height, rules>>

\* One iteration of update_and_propagate's while loop: pop the front, run
\* update_cell on it, push what it reports.  The unwrap() in update_cell
\* panics on a position the map does not hold.
propagate ==
  /\ pc = "propagate"
  /\ updated_positions # <<>>
  /\ \E position \in {Head(updated_positions)} :
       IF position \notin DOMAIN tiles
         THEN /\ pc' = "panicked"
              /\ UNCHANGED <<tiles, updated_positions, contradiction, defaulted>>
         ELSE \E updated \in {update_cell(tiles, position)} :
              /\ tiles' = updated.tiles
              /\ updated_positions' = Tail(updated_positions) \o updated.positions
              /\ contradiction' =
                   (contradiction \/ updated.tiles[position] = Superposition({}))
              /\ defaulted' =
                   (defaulted \/ update_cell_defaulted(tiles, position))
              /\ UNCHANGED pc
  /\ UNCHANGED <<width, height, rules, in_generate, returned, before>>

\* The while loop ends on an empty queue: MapStatus::Generating.
propagate_done ==
  /\ pc = "propagate"
  /\ updated_positions = <<>>
  /\ pc' = IF in_generate THEN "loop" ELSE "idle"
  /\ in_generate' = FALSE
  /\ returned' = IF in_generate THEN "none" ELSE "Generating"
  /\ UNCHANGED <<width, height, rules, tiles, updated_positions, before,
                 contradiction, defaulted>>

\* The end of generate(): remove_sand_islands, then return.
generate_post ==
  /\ pc = "post"
  /\ before' = tiles
  /\ tiles' = remove_sand_islands(tiles)
  /\ pc' = "idle"
  /\ in_generate' = FALSE
  /\ returned' = "generate"
  /\ UNCHANGED <<width, height, rules, updated_positions, contradiction, defaulted>>

\* remove_sand_islands(), called on the map from outside generate().
call_remove_sand_islands ==
  /\ pc = "idle"
  /\ before' = tiles
  /\ tiles' = remove_sand_islands(tiles)
  /\ returned' = "remove_sand_islands"
  /\ UNCHANGED <<width, height, rules, updated_positions, pc, in_generate,
                 contradiction, defaulted>>

Next ==
  \/ generate
  \/ clear
  \/ update_and_propagate
  \/ generate_loop
  \/ propagate
  \/ propagate_done
  \/ generate_post
  \/ call_remove_sand_islands

Spec == Init /\ [][Next]_vars

\* The steps a running call takes by itself; calls come from outside.
running ==
  generate_loop \/ propagate \/ propagate_done \/ generate_post

FairInit == \E d \in FairSizes : \E r \in RuleTables : new(d[1], d[2], r)

\* A call, once made, keeps running: generate() is one synchronous call on
\* one thread, with no suspension point.  Calls themselves come from outside
\* and need not come.
FairSpec == FairInit /\ [][Next]_vars /\ WF_vars(running)

\* The grid sizes of the coast specification.  Its table is the same in all
\* four directions, so a grid and its transpose behave alike and only the
\* wider one is kept.
CoastSizes ==
  {d \in (1..MaxCoastCells) \X (1..MaxCoastCells) :
     d[1] * d[2] <= MaxCoastCells /\ d[1] >= d[2]}

\* The coast maps: a table under which propagation narrows cells to two
\* candidates.
CoastInit == \E d \in CoastSizes : \E r \in CoastTables : new(d[1], d[2], r)

CoastSpec == CoastInit /\ [][Next]_vars

\* The inland maps: a table that keeps water away from sand and grass.
InlandInit == \E d \in CoastSizes : \E r \in InlandTables : new(d[1], d[2], r)

InlandSpec == InlandInit /\ [][Next]_vars

\* The terrain maps: grass, sand and water.
TerrainInit ==
  \E d \in TerrainSizes : \E r \in TerrainTables : new(d[1], d[2], r)

TerrainSpec == TerrainInit /\ [][Next]_vars

\* The 3 x 3 scenario: two types that each allow only themselves.
ScenarioInit ==
  \E r \in ScenarioTables : new(ScenarioSize, ScenarioSize, r)

ScenarioSpec == ScenarioInit /\ [][Next]_vars

----------------------------------------------------------------------------
(* Termination of generate(). *)

RECURSIVE candidate_count(_, _)
\* The candidates left to remove: |S| + 1 for every Superposition(S) cell
\* among the given positions of grid t.
candidate_count(t, positions) ==
  IF positions = {} THEN 0
  ELSE LET position == CHOOSE position \in positions : TRUE
       IN Cardinality(t[position].types) + 1
            + candidate_count(t, positions \ {position})

\* How far the running call is from its return.
pc_rank ==
  CASE pc = "propagate" -> 3
    [] pc = "loop"      -> 2
    [] pc = "post"      -> 1
    [] OTHER            -> 0

\* The variant of the loops: candidates left, queue length, distance to return.
variant ==
  <<candidate_count(tiles, superposition_positions(tiles)),
    Len(updated_positions), pc_rank>>

\* Lexicographic order on triples of naturals.
lex_less(a, b) ==
  \/ a[1] < b[1]
  \/ a[1] = b[1] /\ a[2] < b[2]
  \/ a[1] = b[1] /\ a[2] = b[2] /\ a[3] < b[3]

\* C1: generate() terminates for every rule table and grid: each propagation
\* phase drains its work queue, a started generate() returns, and every step
\* of a running call strictly decreases a well-founded variant.
C1_GenerateTerminates ==
  /\ (pc = "propagate") ~> (updated_positions = <<>>)
  /\ in_generate ~> (pc = "idle" /\ returned = "generate")
  /\ [][running => lex_less(variant', variant)]_vars

\* C1 witness: generate() has returned on a grid of at least three cells
\* after a contradiction arose during propagation.
C1_Witness ==
  /\ pc = "idle"
  /\ returned = "generate"
  /\ contradiction
  /\ Cardinality(DOMAIN tiles) >= 3

----------------------------------------------------------------------------
(* The result of generate(). *)

\* generate() has just returned.
generate_returned == pc = "idle" /\ returned = "generate"

\* C2: when generate() returns, every position of the grid holds a Collapsed
\* cell and no Superposition cell is left anywhere in the map.
C2_AllCollapsedOnReturn ==
  generate_returned =>
    /\ \A x \in 0..(width - 1) : \A y \in 0..(height - 1) :
         /\ Position(x, y) \in DOMAIN tiles
         /\ tiles[Position(x, y)].collapsed
    /\ \A position \in DOMAIN tiles : tiles[position].collapsed

\* C2 witness: generate() has returned on a grid of several cells although a
\* cell had been narrowed to the empty candidate set.
C2_Witness ==
  /\ generate_returned
  /\ contradiction
  /\ width * height >= 4

\* C3: when the collapse + propagate loop of generate() has finished and no
\* cell was narrowed to the empty set, every Collapsed cell (type a at p) and
\* every Collapsed neighbour of it (type b at q, in direction d from p)
\* satisfy rules.valid_neighbour(a, b, d); p ranges over all cells, so both
\* orderings of each adjacent pair are required.
C3_AdjacentPairsValid ==
  (pc = "post" /\ ~contradiction) =>
    \A p \in DOMAIN tiles : \A i \in 1..4 :
      LET d == directions[i]
          q == step(p, d)
      IN (q \in DOMAIN tiles /\ tiles[p].collapsed /\ tiles[q].collapsed) =>
           TileRules_valid_neighbour(TypeOf(tiles[p]), TypeOf(tiles[q]), d)

\* C4: in the 3 x 3 scenario (A allows only A, B allows only B, equal
\* weights) generate() returns a grid whose nine cells are all Collapsed(A)
\* or all Collapsed(B).
C4_UniformGrid ==
  generate_returned =>
    /\ DOMAIN tiles = Positions
    /\ \E type \in {"A", "B"} :
         \A position \in Positions : tiles[position] = Collapsed(type)

----------------------------------------------------------------------------
(* clear(). *)

\* clear() has just returned.
clear_returned == pc = "idle" /\ returned = "clear"

\* C5: after clear(), from any prior grid, every position holds the full
\* superposition over exactly tile_types and none is Collapsed, a second
\* clear() would change nothing, and clear() leaves the rule table alone.
C5_ClearResets ==
  /\ [](clear_returned =>
          /\ DOMAIN tiles = Positions
          /\ \A position \in Positions :
               /\ ~tiles[position].collapsed
               /\ tiles[position].types = Range(rules.tile_types)
          /\ init_tiles(tiles) = tiles)
  /\ [][clear => rules' = rules]_vars

\* C5 witness: clear() has returned after being called on a partially
\* generated grid (some cells Collapsed, some still in Superposition).
C5_Witness ==
  /\ clear_returned
  /\ \E p \in DOMAIN before : before[p].collapsed
  /\ \E q \in DOMAIN before : ~before[q].collapsed /\ before[q] # tiles[q]

----------------------------------------------------------------------------
(* Post-processing: remove_sand_islands. *)

\* The post-processing pass has just run, on the grid `before`.
pass_returned ==
  pc = "idle" /\ returned \in {"generate", "remove_sand_islands"}

\* q is one of the up to eight cells around p.
moore_neighbour(p, q) ==
  /\ q # p
  /\ q.x - p.x \in -1..1
  /\ q.y - p.y \in -1..1

\* Some cell around p, inside the grid, was Collapsed("grass") before the pass.
grass_around(p) ==
  \E q \in Positions : moore_neighbour(p, q) /\ before[q] = Collapsed("grass")

\* C6: the pass turns a Collapsed("sand") cell into Collapsed("water") if and
\* only if no cell of its Moore neighbourhood inside the grid is
\* Collapsed("grass"); with a grass neighbour, diagonal ones included, the
\* cell stays sand.
C6_SandIslandRule ==
  pass_returned =>
    \A p \in DOMAIN before :
      before[p] = Collapsed("sand") =>
        /\ tiles[p] = Collapsed("water") <=> ~grass_around(p)
        /\ grass_around(p) => tiles[p] = Collapsed("sand")

\* C6 witness: one pass turned a sand cell without grass around it into
\* water and kept a sand cell whose only grass neighbours are diagonal.
C6_Witness ==
  /\ pass_returned
  /\ \E p \in DOMAIN before :
       before[p] = Collapsed("sand") /\ tiles[p] = Collapsed("water")
  /\ \E p \in DOMAIN before :
       /\ before[p] = Collapsed("sand")
       /\ tiles[p] = Collapsed("sand")
       /\ \A i \in 1..4 :
            step(p, directions[i]) \in DOMAIN before =>
              before[step(p, directions[i])] # Collapsed("grass")

\* C7: the pass changes only cells that were Collapsed("sand") when it
\* began, keeps the set of positions, decides every sand cell on the grid as
\* it was before the pass, and a second pass would change nothing.
C7_PassFrame ==
  pass_returned =>
    /\ DOMAIN tiles = DOMAIN before
    /\ \A p \in DOMAIN before :
         before[p] # Collapsed("sand") => tiles[p] = before[p]
    /\ \A p \in DOMAIN before :
         before[p] = Collapsed("sand") =>
           tiles[p] = IF should_remove_sand(before, p)
                        THEN Collapsed("water") ELSE Collapsed("sand")
    /\ remove_sand_islands(tiles) = tiles

\* C7 witness: the pass ran on a grid that held a Superposition cell, a
\* grass cell and a water cell, and rewrote a sand cell.
C7_Witness ==
  /\ pass_returned
  /\ \E p \in DOMAIN before :
       before[p] = Collapsed("sand") /\ tiles[p] = Collapsed("water")
  /\ \E p \in DOMAIN before : ~before[p].collapsed
  /\ \E p \in DOMAIN before : before[p] = Collapsed("grass")
  /\ \E p \in DOMAIN before : before[p] = Collapsed("water")

----------------------------------------------------------------------------
(* The rule table's lookups. *)

\* The set of an AdjacencyRule that bears the direction's own name.
named_set(rule, direction) ==
  CASE direction = "North" -> rule.north
    [] direction = "East"  -> rule.east
    [] direction = "South" -> rule.south
    [] direction = "West"  -> rule.west

\* C8: TileRules::valid_neighbour(candidate, neighbour, direction) consults,
\* for each of the four directions, the neighbour's adjacency set named by
\* that direction.
C8_NamedDirectionSet ==
  \A neighbour \in DOMAIN rules.adjacency :
    \A candidate \in Range(rules.tile_types) : \A i \in 1..4 :
      TileRules_valid_neighbour(candidate, neighbour, directions[i])
        <=> candidate \in named_set(rules.adjacency[neighbour], directions[i])

\* C9: once the adjacency or the weight of a type without an entry has been
\* looked up, generation has aborted: it never goes on with a default.
C9_MissingEntryAborts == defaulted => pc = "panicked"

\* C10: the weighted draw can return every member of the set it draws from:
\* for every Superposition cell, a candidate that has a weight entry is a
\* possible result of random_tile_from_set when some candidate of the cell
\* has a positive weight, even if its own weight is 0.
C10_ZeroWeightSelectable ==
  \A position \in superposition_positions(tiles) :
    \A tile \in tiles[position].types :
      (/\ tile \in DOMAIN rules.weights
       /\ \E other \in tiles[position].types : weight_or_default(other) > 0)
        => tile \in random_tile_from_set(tiles[position].types)

----------------------------------------------------------------------------
(* collapse_to_random_type. *)

\* The step in which update_and_propagate calls collapse_to_random_type.
collapse_step == generate_loop \/ update_and_propagate

\* C11: a cell narrowed to the empty candidate set fails when it is selected
\* for random collapse: the collapse step assigns no type to a cell that
\* holds Superposition({}) under a rule table that has types.
C11_EmptyCellNotCollapsed ==
  [][collapse_step =>
       \A p \in DOMAIN tiles :
         (tiles[p] = Superposition({}) /\ rules.tile_types # <<>>)
           => ~tiles'[p].collapsed]_vars

\* C12: the panic "Tried to collapse a collapsed cell" is unreachable: every
\* position find_lowest_entropy can return is in the map and holds a
\* Superposition cell, and no collapse step ends in the panic.
C12_NoCollapsedCellSelected ==
  /\ [](\A position \in find_lowest_entropy(tiles) :
          position \in DOMAIN tiles /\ ~tiles[position].collapsed)
  /\ [][collapse_step => pc' # "panicked"]_vars

\* C12 witness: update_and_propagate, called on a partially generated grid,
\* has collapsed a cell while other cells were Collapsed already and others
\* are still in Superposition.
C12_Witness ==
  /\ pc = "propagate"
  /\ ~in_generate
  /\ Cardinality({p \in DOMAIN tiles : tiles[p].collapsed}) >= 2
  /\ superposition_positions(tiles) # {}

----------------------------------------------------------------------------
(* generate() and the grid it starts from. *)

\* generate() has just initialised the grid `before` and is about to loop.
generate_started == pc = "loop" /\ returned = "none" /\ before # <<>>

\* The grid a freshly constructed map holds after init_tiles.
fresh_grid ==
  [position \in {Position(x, y) : x \in 0..(width - 1), y \in 0..(height - 1)}
     |-> Superposition(Range(rules.tile_types))]

\* C13: generate() starts from full superposition whatever the grid held:
\* its first step leaves the grid a freshly constructed map would get and an
\* empty work queue, so what follows does not depend on the prior grid, and
\* a clear() before generate() makes no difference.
C13_GenerateStartsFresh ==
  [][generate =>
       /\ tiles' = fresh_grid
       /\ tiles' = init_tiles(<<>>)
       /\ tiles' = init_tiles(init_tiles(tiles))
       /\ updated_positions' = <<>>
       /\ <<width', height', rules'>> = <<width, height, rules>>]_vars

\* C13 witness: generate() has reinitialised a partially generated grid
\* (some cells Collapsed, some narrowed) to full superposition.
C13_Witness ==
  /\ generate_started
  /\ tiles = fresh_grid
  /\ \E p \in DOMAIN before : before[p].collapsed
  /\ \E p \in DOMAIN before : ~before[p].collapsed

----------------------------------------------------------------------------
(* update_cell. *)

\* The position the next iteration of the while loop pops.
popped == Head(updated_positions)

\* The while loop is about to run update_cell on a Superposition cell.
updates_superposition ==
  /\ propagate
  /\ popped \in DOMAIN tiles
  /\ ~tiles[popped].collapsed

\* The neighbours of p that the grid holds, as a set.
neighbour_set(p) ==
  {n \in [direction : Range(directions), position : DOMAIN tiles] :
     n.position = step(p, n.direction)}

\* The Collapsed neighbour n forbids candidate c.
forbids(c, n) ==
  /\ tiles[n.position].collapsed
  /\ ~TileRules_valid_neighbour(c, TypeOf(tiles[n.position]), n.direction)

\* Neighbour n confirms candidate c: a compatible Collapsed neighbour, or a
\* Superposition neighbour that holds some type compatible with c.
confirms(c, n) ==
  \E t \in tiles[n.position].types :
    TileRules_valid_neighbour(c, t, n.direction)

\* The candidates of the cell at p that no neighbour forbids and that some
\* neighbour confirms.
survivors(p) ==
  {c \in tiles[p].types :
     /\ \A n \in neighbour_set(p) : ~forbids(c, n)
     /\ \E n \in neighbour_set(p) : confirms(c, n)}

\* The orders in which a list of n neighbours can be folded.
fold_orders(n) ==
  {order \in [1..n -> 1..n] : \A i, j \in 1..n : order[i] = order[j] => i = j}

\* C14: update_cell on a Superposition cell keeps a candidate exactly when no
\* Collapsed neighbour forbids it and at least one neighbour confirms it,
\* whatever the order in which the neighbours are folded; the cell becomes
\* Collapsed(c) when exactly one candidate c survives and Superposition of
\* the survivors otherwise, the empty set included.
C14_FilterVerdict ==
  [][updates_superposition =>
       /\ tiles'[popped] =
            IF \E c \in survivors(popped) : survivors(popped) = {c}
              THEN Collapsed(CHOOSE c \in survivors(popped) : TRUE)
              ELSE Superposition(survivors(popped))
       /\ \A neighbours \in {get_all_neighbours(tiles, popped)} :
          \A order \in fold_orders(Len(neighbours)) :
          \A c \in tiles[popped].types :
            type_filter(c, [i \in 1..Len(neighbours) |-> neighbours[order[i]]])
              <=> c \in survivors(popped)]_vars

\* C14 witness: propagation has narrowed a cell to the empty set although
\* none of its neighbours is Collapsed (no neighbour confirmed a candidate),
\* and another cell to the empty set next to a Collapsed neighbour (a veto).
C14_Witness ==
  /\ pc = "propagate"
  /\ rules.tile_types # <<>>
  /\ \E q \in DOMAIN tiles :
       /\ tiles[q] = Superposition({})
       /\ \A n \in neighbour_set(q) : ~tiles[n.position].collapsed
  /\ \E q \in DOMAIN tiles :
       /\ tiles[q] = Superposition({})
       /\ \E n \in neighbour_set(q) : tiles[n.position].collapsed

\* The in-grid neighbour positions of p, in the order North, East, South, West.
neighbour_positions(p) == positions_of(get_all_neighbours(tiles, p))

\* C15: update_cell reports the cell's in-grid neighbour positions if and
\* only if the state of the cell changed; on a Collapsed cell, and when no
\* candidate is removed, it changes nothing in the grid and reports nothing;
\* it never writes any other cell.
C15_ReportsIffChanged ==
  [][(propagate /\ popped \in DOMAIN tiles) =>
       /\ \A q \in DOMAIN tiles \ {popped} : tiles'[q] = tiles[q]
       /\ IF tiles'[popped] # tiles[popped]
            THEN updated_positions' =
                   Tail(updated_positions) \o neighbour_positions(popped)
            ELSE updated_positions' = Tail(updated_positions)
       /\ (\/ tiles[popped].collapsed
           \/ tiles'[popped].types = tiles[popped].types) => tiles' = tiles]_vars

----------------------------------------------------------------------------
(* The choice of the cell to collapse. *)

\* The positions that hold a Superposition cell.
in_superposition == {p \in DOMAIN tiles : ~tiles[p].collapsed}

\* The Superposition cells whose entropy no other Superposition cell undercuts.
min_entropy_positions ==
  {p \in in_superposition :
     \A q \in in_superposition :
       calculate_entropy(tiles[p].types) <= calculate_entropy(tiles[q].types)}

\* update_and_propagate reports MapStatus::Finished in this step.
reports_finished ==
  \/ pc = "loop" /\ pc' = "post"
  \/ pc = "idle" /\ pc' = "idle" /\ returned' = "Finished"

\* C16: collapse_to_random_type collapses a Superposition cell of minimal
\* entropy and no other cell, every position of minimal entropy can be the
\* one selected, and it signals finished exactly when the grid holds no
\* Superposition cell.
C16_MinimalEntropySelected ==
  /\ [](find_lowest_entropy(tiles) = min_entropy_positions)
  /\ [][collapse_step =>
          IF in_superposition = {}
            THEN reports_finished /\ tiles' = tiles
            ELSE /\ ~reports_finished
                 /\ pc' = "propagate"
                 /\ \E p \in min_entropy_positions :
                      /\ tiles'[p].collapsed
                      /\ \A q \in DOMAIN tiles \ {p} : tiles'[q] = tiles[q]]_vars

\* C16 witness: the first collapse on a grid of at least four cells, all tied
\* in full superposition, selected the last position of the grid.
C16_Witness ==
  /\ pc = "propagate"
  /\ Len(rules.tile_types) >= 2
  /\ Cardinality(DOMAIN tiles) >= 4
  /\ \E p \in DOMAIN tiles :
       /\ p = Position(width - 1, height - 1)
       /\ tiles[p].collapsed
       /\ updated_positions = neighbour_positions(p)
       /\ \A q \in DOMAIN tiles \ {p} :
            tiles[q] = Superposition(Range(rules.tile_types))

\* The sum of the weights of a set of types: one token per unit of weight.
weight_sum(types) ==
  Cardinality(UNION {{<<t, i>> : i \in 1..get_weight_of_type(t)} : t \in types})

\* The cell at p is in full superposition: its candidates are all the types.
full_superposition(p) ==
  ~tiles[p].collapsed /\ tiles[p].types = Range(rules.tile_types)

\* The cell at p is in Superposition with a strict subset of the types.
narrowed_superposition(p) ==
  /\ ~tiles[p].collapsed
  /\ tiles[p].types # Range(rules.tile_types)
  /\ tiles[p].types \subseteq Range(rules.tile_types)

\* C17: the entropy of a candidate set is the sum of the weights of its
\* types, except that the set of all types gets the maximum representable
\* entropy; so a cell in full superposition is never selected for collapse,
\* and no collapse step writes it, while some cell with a narrowed candidate
\* set is in Superposition.
C17_FullSuperpositionLast ==
  /\ [](\A p \in in_superposition :
          calculate_entropy(tiles[p].types) =
            IF tiles[p].types = Range(rules.tile_types)
              THEN i32_MAX ELSE weight_sum(tiles[p].types))
  /\ []((\E q \in DOMAIN tiles : narrowed_superposition(q)) =>
          \A p \in find_lowest_entropy(tiles) : ~full_superposition(p))
  /\ [][collapse_step =>
          \A p \in DOMAIN tiles :
            (/\ full_superposition(p)
             /\ \E q \in DOMAIN tiles : narrowed_superposition(q))
              => tiles'[p] = tiles[p]]_vars

\* C17 witness: update_and_propagate has returned on a grid with exactly two
\* Collapsed cells, both grass and adjacent, a cell narrowed to two
\* candidates and a cell in full superposition: the second of the two was
\* selected when it was narrowed by the first and the full cell was there.
C17_Witness ==
  /\ pc = "idle"
  /\ returned = "Generating"
  /\ \E p \in DOMAIN tiles : \E n \in neighbour_set(p) :
       /\ tiles[p] = Collapsed("grass")
       /\ tiles[n.position] = Collapsed("grass")
       /\ \A q \in DOMAIN tiles \ {p, n.position} : ~tiles[q].collapsed
  /\ \E q \in DOMAIN tiles :
       narrowed_superposition(q) /\ Cardinality(tiles[q].types) = 2
  /\ \E q \in DOMAIN tiles : full_superposition(q)

----------------------------------------------------------------------------
(* update_and_propagate. *)

\* The number of Superposition cells of grid t.
superposition_count(t) == Cardinality({p \in DOMAIN t : ~t[p].collapsed})

\* C18: a call of update_and_propagate that reports Generating leaves
\* strictly fewer Superposition cells than it found and an empty work queue:
\* its collapse removes one, no step of its propagation adds one, and it
\* returns on an empty queue without writing the grid; a call made when no
\* cell is in Superposition reports Finished and leaves the grid unchanged.
C18_CallMakesProgress ==
  /\ [][collapse_step =>
          IF superposition_count(tiles) = 0
            THEN reports_finished /\ tiles' = tiles
            ELSE /\ ~reports_finished
                 /\ superposition_count(tiles') < superposition_count(tiles)]_vars
  /\ [][propagate =>
          superposition_count(tiles') <= superposition_count(tiles)]_vars
  /\ [][propagate_done =>
          /\ updated_positions = <<>>
          /\ updated_positions' = <<>>
          /\ tiles' = tiles]_vars
  /\ []((pc = "idle" /\ returned \in {"Generating", "Finished"}) =>
          updated_positions = <<>>)

\* C18 witness: a call of update_and_propagate has reported Generating and
\* left no Superposition cell on a grid of at least four cells, none of them
\* drawn from an empty candidate set.
C18_Witness ==
  /\ pc = "idle"
  /\ returned = "Generating"
  /\ Cardinality(DOMAIN tiles) >= 4
  /\ superposition_count(tiles) = 0
  /\ ~contradiction

----------------------------------------------------------------------------
(* The order of propagation. *)

RECURSIVE fifo_drained(_, _)
\* The grid the while loop of update_and_propagate ends with, from grid t and
\* queue `queue`: the front is popped, update_cell runs on it, and what it
\* reports is pushed at the back.
fifo_drained(t, queue) ==
  IF queue = <<>> THEN t
  ELSE LET updated == update_cell(t, Head(queue))
       IN fifo_drained(updated.tiles, Tail(queue) \o updated.positions)

RECURSIVE any_order_drained(_, _)
\* The grids a work list processed in any order can end with, from grid t
\* and the pending positions `pending`: any pending position is taken next,
\* update_cell runs on it, and what it reports becomes pending.
any_order_drained(t, pending) ==
  IF pending = {} THEN {t}
  ELSE UNION {LET updated == update_cell(t, p)
              IN any_order_drained(updated.tiles,
                                   (pending \ {p}) \cup Range(updated.positions)) :
                p \in pending}

\* C19: after a cell has been collapsed, the grid reached when the work
\* queue drains does not depend on the order in which the queued positions
\* are processed: every order ends with the grid the FIFO order ends with.
C19_OrderIndependent ==
  [][(collapse_step /\ pc' = "propagate") =>
       any_order_drained(tiles', Range(updated_positions'))
         = {fifo_drained(tiles', updated_positions')}]_vars

----------------------------------------------------------------------------
(* Narrowing. *)

\* generate() is between its init_tiles and its post-processing pass.
generate_looping == pc = "loop" \/ (pc = "propagate" /\ in_generate)

----------------------------------------------------------------------------
(* The grid update_and_propagate leaves. *)

\* update_and_propagate has just returned, to generate()'s loop
\* (Generating), to generate()'s post pass (Finished) or to an outside caller.
update_and_propagate_returned ==
  \/ pc = "post"
  \/ pc = "loop" /\ \E p \in DOMAIN tiles : tiles[p].collapsed
  \/ pc = "idle" /\ returned \in {"Generating", "Finished"}

\* Candidate c at p is compatible with every Collapsed neighbour of p.
compatible_with_collapsed_neighbours(c, p) ==
  \A i \in 1..4 :
    LET d == directions[i]
        q == step(p, d)
    IN (q \in DOMAIN tiles /\ tiles[q].collapsed) =>
         TileRules_valid_neighbour(c, TypeOf(tiles[q]), d)

\* C21: whenever update_and_propagate returns, every candidate c of every
\* Superposition cell at p is compatible with every Collapsed neighbour of p
\* (type t in direction d from p): valid_neighbour(c, t, d) is true.
C21_CandidatesCompatible ==
  update_and_propagate_returned =>
    \A p \in DOMAIN tiles :
      ~tiles[p].collapsed =>
        \A c \in tiles[p].types : compatible_with_collapsed_neighbours(c, p)

----------------------------------------------------------------------------
(* The types generate() writes. *)

\* A state reached through generate(): inside its loop, before its post
\* pass, or just after its return.
through_generate == generate_looping \/ pc = "post" \/ generate_returned

\* C22: in every state reached through generate(), the type held by any
\* Collapsed cell is a member of the rule table's tile_types: neither the
\* draw, its fallback included, nor the post pass writes an undeclared type.
C22_CollapsedTypesDeclared ==
  through_generate =>
    \A p \in DOMAIN tiles :
      tiles[p].collapsed => TypeOf(tiles[p]) \in Range(rules.tile_types)

----------------------------------------------------------------------------
(* The post-processing pass and the adjacency rules. *)

\* Every Collapsed cell of grid t (type a at p) and every Collapsed
\* neighbour of it (type b at q, in direction d from p) satisfy
\* valid_neighbour(a, b, d).
adjacent_pairs_valid(t) ==
  \A p \in DOMAIN t : \A i \in 1..4 :
    LET d == directions[i]
        q == step(p, d)
    IN (q \in DOMAIN t /\ t[p].collapsed /\ t[q].collapsed) =>
         TileRules_valid_neighbour(TypeOf(t[p]), TypeOf(t[q]), d)

\* C23: the post-processing pass preserves constraint satisfaction: when
\* every pair of adjacent Collapsed cells satisfied valid_neighbour before
\* remove_sand_islands, every pair satisfies it after the pass.
C23_PassKeepsPairsValid ==
  (pass_returned /\ adjacent_pairs_valid(before)) =>
    adjacent_pairs_valid(tiles)

====
